---------------------------- MODULE Spec2Model ----------------------------
(***************************************************************************)
(* State-machine model of the Entity-Component-System manager              *)
(* (EntityManager.h): the id allocator (nextId, entities, freeIds), the    *)
(* storage registry (components) with one ComponentStorage per component   *)
(* type, and the range-for loop of forEach with the visitor's callback.    *)
(***************************************************************************)
EXTENDS Integers, Sequences, FiniteSets, TLC

(* ------------------------------ bounds --------------------------------- *)
\* SpecAlloc and SpecIter: nextId is capped, fresh ids are 0 .. MaxId-1.
MaxId == 3
\* SpecAlloc and SpecIter: freeIds holds at most MaxFree ids.
MaxFree == 2
\* SpecAllocLive: nextId is capped, fresh ids are 0 .. MaxLiveId-1.
MaxLiveId == 4
\* Spec: nextId is capped, fresh ids are 0 .. MaxCompId-1.
MaxCompId == 2
\* Spec: freeIds holds at most MaxCompFree ids.
MaxCompFree == 1
\* Spec: component payloads are 1 .. MaxVal.
MaxVal == 2

\* The entity ids the callers pass (using Entity = int, cut to the ids in use).
Entity == 0 .. (MaxId - 1)
CompEntity == 0 .. (MaxCompId - 1)
\* The component types the callers instantiate the templates with.
Types == {"Position", "Health"}
IterTypes == {"Health"}
\* The payload of a component (Health.hp, Position.x).
Value == 1 .. MaxVal
IterValue == {1}

(* ------------------------------ helpers -------------------------------- *)
Range(s) == {s[i] : i \in 1 .. Len(s)}

\* entities.erase(std::remove(entities.begin(), entities.end(), id), entities.end())
EraseRemove(s, id) == SelectSeq(s, LAMBDA x : x # id)

\* every arrangement of the set S as a sequence without repetition
Perms(S) == {s \in [1 .. Cardinality(S) -> S] : Range(s) = S}

(* --------------------- ComponentStorage<C> ----------------------------- *)
\* A storage (std::unordered_map<Entity, C> data) is a set of nodes <<e, v>>.
Keys(data) == {p[1] : p \in data}

\* ComponentStorage::has
has(data, e) == \E p \in data : p[1] = e

\* ComponentStorage::get: <<>> is nullptr, <<v>> points at the stored v
get(data, e) == IF has(data, e) THEN <<(CHOOSE p \in data : p[1] = e)[2]>> ELSE <<>>

\* ComponentStorage::remove
remove(data, e) == {p \in data : p[1] # e}

\* mutant: data.emplace alone, which leaves an existing value in place
emplaceKeepOld(data, e, v) == IF has(data, e) THEN data ELSE data \cup {<<e, v>>}

\* ComponentStorage::emplace: insert if the key is absent, else assign
emplace(data, e, v) ==
    IF has(data, e)
    THEN {IF p[1] = e THEN <<e, v>> ELSE p : p \in data}
    ELSE data \cup {<<e, v>>}

(* ------------------------------ state ---------------------------------- *)
VARIABLES
    nextId,      \* int nextId
    entities,    \* std::vector<Entity> entities
    freeIds,     \* std::vector<Entity> freeIds
    components,  \* unordered_map<type_index, unique_ptr<IComponentStorage>>
    pc,          \* "idle", or the position inside forEach's loop
    feT,         \* forEach: the type T of the running call
    order,       \* forEach: the node list of ptr->all() when the loop began
    it,          \* forEach: the loop's iterator, an index into order
    visits,      \* forEach: the entities func was called with, in call order
    startKeys,   \* forEach: the keys of the storage when the loop began
    killed,      \* forEach: pairs <<visited, destroyed>> of the visitor's destroyEntity calls
    lastOp,      \* the last call of the public API and what it returned
    everAdded,   \* the types addComponent<T> was ever called with
    maxFresh,    \* the largest id taken from nextId so far (-1: none)
    main,        \* main(): its position pc, the locals i, e, t and the statement k of the tick body
    sys,         \* the system whose update/render was called last ("none": none yet)
    dt,          \* MovementSystem::update: the dt of the last call
    out,         \* RenderSystem::render: the lines the last call wrote, line |-> how often
    startMgr,    \* the manager's state when the last system call began
    tickMgr,     \* the manager's state when the running tick began
    dead         \* the entities HealthSystem::update destroyed so far

vars == <<nextId, entities, freeIds, components, pc, feT, order, it, visits,
          startKeys, killed, lastOp, everAdded, maxFresh,
          main, sys, dt, out, startMgr, tickMgr, dead>>

mgr == <<nextId, entities, freeIds, components>>
loop == <<feT, order, it, visits, startKeys, killed>>
\* the state of main() and of the systems, which the manager's methods never touch
drv == <<main, sys, dt, out, startMgr, tickMgr, dead>>

NoType == "none"
NoEntity == -1
\* op(T, e, v) returned ret; was is what the call found for (T, e) on entry
Call(op, T, e, v, was, ret) ==
    [op |-> op, T |-> T, e |-> e, v |-> v, was |-> was, ret |-> ret]

\* the frame of a forEach call is gone once another call is made
NoLoop ==
    /\ feT' = NoType
    /\ order' = <<>>
    /\ it' = 0
    /\ visits' = <<>>
    /\ startKeys' = {}
    /\ killed' = {}

Init ==
    /\ nextId = 0
    /\ entities = <<>>
    /\ freeIds = <<>>
    /\ components = <<>>
    /\ pc = "idle"
    /\ feT = NoType
    /\ order = <<>>
    /\ it = 0
    /\ visits = <<>>
    /\ startKeys = {}
    /\ killed = {}
    /\ lastOp = Call("init", NoType, NoEntity, 0, <<>>, <<>>)
    /\ everAdded = {}
    /\ maxFresh = -1
    /\ main = [pc |-> "spawn", i |-> 0, e |-> NoEntity, t |-> 0, k |-> 1]
    /\ sys = "none"
    /\ dt = 0
    /\ out = <<>>
    /\ startMgr = <<>>
    /\ tickMgr = <<>>
    /\ dead = {}

(* ------------------------- EntityManager ------------------------------- *)
\* mutant: the early return on a missing storage answers true
hasComponentRetInverted(comps, T, e) ==
    IF T \notin DOMAIN comps THEN TRUE ELSE has(comps[T], e)

\* hasComponent: the value it returns
hasComponentRet(comps, T, e) == IF T \notin DOMAIN comps THEN FALSE ELSE has(comps[T], e)

\* getComponent: the pointer it returns (<<>> is nullptr)
getComponentRet(comps, T, e) == IF T \notin DOMAIN comps THEN <<>> ELSE get(comps[T], e)

\* the types whose storage holds an entry for id
holders(comps, id) == {T \in DOMAIN comps : has(comps[T], id)}

\* mutant: reuse the oldest freed id instead of the newest
createEntityIdFifo(free, next) == IF free # <<>> THEN free[1] ELSE next

\* createEntity: the id it returns
createEntityId(free, next) == IF free # <<>> THEN free[Len(free)] ELSE next

\* createEntity: freeIds after the call (pop_back when non-empty)
createEntityFree(free) == IF free # <<>> THEN SubSeq(free, 1, Len(free) - 1) ELSE free

\* createEntity: nextId after the call (id = nextId++ when freeIds is empty)
createEntityNext(free, next) == IF free # <<>> THEN next ELSE next + 1

createEntity ==
    /\ pc = "idle"
    /\ LET id == createEntityId(freeIds, nextId) IN
        /\ entities' = Append(entities, id)
        /\ lastOp' = Call("createEntity", NoType, NoEntity, 0, <<>>, <<id>>)
        /\ maxFresh' = IF freeIds = <<>> THEN id ELSE maxFresh
    /\ freeIds' = createEntityFree(freeIds)
    /\ nextId' = createEntityNext(freeIds, nextId)
    /\ NoLoop
    /\ UNCHANGED <<components, pc, everAdded>>

\* mutant: destroyEntity without the loop over the storages
destroyEntityComponentsNone(comps, id) == comps

\* destroyEntity: for (auto& kv : components) kv.second->remove(id)
destroyEntityComponents(comps, id) == [T \in DOMAIN comps |-> remove(comps[T], id)]

\* mutant: destroyEntity without the push_back
destroyEntityFreeDrop(free, id) == free

\* destroyEntity: freeIds.push_back(id), whether or not id was live
destroyEntityFree(free, id) == Append(free, id)

destroyEntity(id) ==
    /\ pc = "idle"
    /\ entities' = EraseRemove(entities, id)
    /\ freeIds' = destroyEntityFree(freeIds, id)
    /\ components' = destroyEntityComponents(components, id)
    /\ lastOp' = Call("destroyEntity", NoType, id, 0, holders(components, id), <<>>)
    /\ NoLoop
    /\ UNCHANGED <<nextId, pc, everAdded, maxFresh>>

\* mutant: a new, empty storage is made on every call
addComponentStoreFresh(comps, T, e, v) ==
    [X \in DOMAIN comps \cup {T} |-> IF X = T THEN emplace({}, e, v) ELSE comps[X]]

\* addComponent: the registry after the call (lazy creation, then emplace)
addComponentStore(comps, T, e, v) ==
    IF T \notin DOMAIN comps
    THEN [X \in DOMAIN comps \cup {T} |-> IF X = T THEN emplace({}, e, v) ELSE comps[X]]
    ELSE [comps EXCEPT ![T] = emplace(@, e, v)]

addComponent(T, e, v) ==
    /\ pc = "idle"
    /\ components' = addComponentStore(components, T, e, v)
    /\ lastOp' = Call("addComponent", T, e, v, getComponentRet(components, T, e), <<>>)
    /\ everAdded' = everAdded \cup {T}
    /\ NoLoop
    /\ UNCHANGED <<nextId, entities, freeIds, pc, maxFresh>>

\* mutant: the storage is dropped from the registry once it is empty
removeComponentStoreDrop(comps, T, e) ==
    IF T \notin DOMAIN comps THEN comps
    ELSE IF remove(comps[T], e) = {}
         THEN [X \in DOMAIN comps \ {T} |-> comps[X]]
         ELSE [comps EXCEPT ![T] = remove(@, e)]

\* mutant: the whole storage is cleared instead of the one entry
removeComponentStoreClear(comps, T, e) ==
    IF T \notin DOMAIN comps THEN comps ELSE [comps EXCEPT ![T] = {}]

\* removeComponent: the registry after the call
removeComponentStore(comps, T, e) ==
    IF T \notin DOMAIN comps THEN comps ELSE [comps EXCEPT ![T] = remove(@, e)]

removeComponent(T, e) ==
    /\ pc = "idle"
    /\ components' = removeComponentStore(components, T, e)
    /\ lastOp' = Call("removeComponent", T, e, 0, getComponentRet(components, T, e), <<>>)
    /\ NoLoop
    /\ UNCHANGED <<nextId, entities, freeIds, pc, everAdded, maxFresh>>

hasComponent(T, e) ==
    /\ pc = "idle"
    /\ lastOp' = Call("hasComponent", T, e, 0, <<>>, <<hasComponentRet(components, T, e)>>)
    /\ NoLoop
    /\ UNCHANGED <<mgr, pc, everAdded, maxFresh>>

getComponent(T, e) ==
    /\ pc = "idle"
    /\ lastOp' = Call("getComponent", T, e, 0, <<>>, getComponentRet(components, T, e))
    /\ NoLoop
    /\ UNCHANGED <<mgr, pc, everAdded, maxFresh>>

(* ------------------------------ forEach -------------------------------- *)
\* forEach: the entities the range-for ranges over (none without a storage)
forEachNodes(comps, T) == IF T \notin DOMAIN comps THEN {} ELSE Keys(comps[T])

\* mutant: the increment steps over one linked node too many
NextLinkedSkip(ord, keys, i) ==
    LET S == {j \in (i + 1) .. (Len(ord) + 1) : j = Len(ord) + 1 \/ ord[j] \in keys}
        a == CHOOSE j \in S : \A k \in S : j <= k
        R == S \ {a}
    IN IF R = {} THEN a ELSE CHOOSE j \in R : \A k \in R : j <= k

\* mutant: the increment walks the node list as it was when the loop began
NextLinkedStale(ord, keys, i) == i + 1

\* ++it on a node that is still linked: the next node still in the list, or end()
NextLinked(ord, keys, i) ==
    LET S == {j \in (i + 1) .. (Len(ord) + 1) : j = Len(ord) + 1 \/ ord[j] \in keys}
    IN CHOOSE j \in S : \A k \in S : j <= k

\* forEach up to the first evaluation of the loop condition. Without a storage
\* for T it returns at once; otherwise the loop starts at begin() of a node list
\* whose order the hash table decides.
forEachBegin(T) ==
    /\ pc = "idle"
    /\ feT' = T
    /\ visits' = <<>>
    /\ killed' = {}
    /\ startKeys' = forEachNodes(components, T)
    /\ IF T \notin DOMAIN components
       THEN /\ order' = <<>>
            /\ it' = 0
            /\ pc' = "idle"
            /\ lastOp' = Call("forEach", T, NoEntity, 0, <<>>, <<>>)
       ELSE /\ order' \in Perms(Keys(components[T]))
            /\ it' = 1
            /\ pc' = "body"
            /\ lastOp' = Call("forEach.begin", T, NoEntity, 0, <<>>, <<>>)
    /\ UNCHANGED <<mgr, everAdded, maxFresh>>

\* it == end(): forEach returns
forEachEnd ==
    /\ pc = "body"
    /\ it > Len(order)
    /\ pc' = "idle"
    /\ lastOp' = Call("forEach", feT, NoEntity, 0, <<>>, <<>>)
    /\ UNCHANGED <<mgr, loop, everAdded, maxFresh>>

\* func(kv.first, kv.second) with a visitor that changes nothing
forEachVisit ==
    /\ pc = "body"
    /\ it <= Len(order)
    /\ visits' = Append(visits, order[it])
    /\ pc' = "incr"
    /\ UNCHANGED <<mgr, feT, order, it, startKeys, killed, lastOp, everAdded, maxFresh>>

\* func(kv.first, kv.second) with a visitor that calls mgr.destroyEntity(id)
forEachVisitDestroy(id) ==
    /\ pc = "body"
    /\ it <= Len(order)
    /\ visits' = Append(visits, order[it])
    /\ killed' = killed \cup {<<order[it], id>>}
    /\ entities' = EraseRemove(entities, id)
    /\ freeIds' = destroyEntityFree(freeIds, id)
    /\ components' = destroyEntityComponents(components, id)
    /\ pc' = "incr"
    /\ UNCHANGED <<nextId, feT, order, it, startKeys, lastOp, everAdded, maxFresh>>

\* the loop's iterator refers to a node that was erased from the map
Dangling == it \in 1 .. Len(order) /\ order[it] \notin forEachNodes(components, feT)

\* ++it of the range-for, the iterator's node still being in the map
forEachIncr ==
    /\ pc = "incr"
    /\ ~Dangling
    /\ it' = NextLinked(order, forEachNodes(components, feT), it)
    /\ pc' = "body"
    /\ UNCHANGED <<mgr, feT, order, visits, startKeys, killed, lastOp, everAdded, maxFresh>>

\* ++it of the range-for on an iterator whose node was erased: undefined
\* behaviour. It reads the freed node's link: the loop goes on at any node still
\* in the list or at end(), or the read faults.
forEachIncrDangling ==
    /\ pc = "incr"
    /\ Dangling
    /\ \/ /\ it' \in {j \in 1 .. (Len(order) + 1) :
                        j = Len(order) + 1 \/ order[j] \in forEachNodes(components, feT)}
          /\ pc' = "body"
       \/ /\ it' = it
          /\ pc' = "crashed"
    /\ UNCHANGED <<mgr, feT, order, visits, startKeys, killed, lastOp, everAdded, maxFresh>>

(* ------------------------------ systems -------------------------------- *)
\* SpecTick: nextId is capped, fresh ids are 0 .. MaxTickId-1.
MaxTickId == 2
\* SpecTick: the tick loop runs MaxTicks times.
MaxTicks == 2
\* SpecTick: Health.hp starts in -1 .. MaxHp.
MaxHp == 2
\* SpecTick: MovementSystem::update is called with dt in 1 .. MaxDt.
MaxDt == 2

TickEntity == 0 .. (MaxTickId - 1)
SysTypes == {"Position", "Velocity", "Health", "Name"}
\* The components the callers attach: Position is <<x, y>>, Velocity is
\* <<dx, dy>>, Health is hp, Name is its string. The floats are integers here.
SysValue(T) ==
    CASE T = "Position" -> {<<0, 0>>}
      [] T = "Velocity" -> {<<1, 2>>}
      [] T = "Health" -> (-1) .. MaxHp
      [] T = "Name" -> {"a"}
Dt == 1 .. MaxDt

\* the node of e in a storage gets the value v (a write through C& or C*)
assign(data, e, v) == {IF p[1] = e THEN <<e, v>> ELSE p : p \in data}

\* one more copy of the line r in the output o
AddLine(o, r) ==
    IF r \in DOMAIN o
    THEN [o EXCEPT ![r] = @ + 1]
    ELSE [x \in DOMAIN o \cup {r} |-> IF x = r THEN 1 ELSE o[x]]

\* mutant: the position advances by the velocity, whatever dt is
MovementStoreNoDt(comps, e, v, d) ==
    LET pos == getComponentRet(comps, "Position", e) IN
    IF pos = <<>> THEN comps
    ELSE [comps EXCEPT !["Position"] =
              assign(@, e, <<pos[1][1] + v[1], pos[1][2] + v[2]>>)]

\* MovementSystem::update's visitor: the registry after func(e, v)
MovementStore(comps, e, v, d) ==
    LET pos == getComponentRet(comps, "Position", e) IN
    IF pos = <<>> THEN comps
    ELSE [comps EXCEPT !["Position"] =
              assign(@, e, <<pos[1][1] + v[1] * d, pos[1][2] + v[2] * d>>)]

\* MovementSystem::update(dt) up to the first evaluation of the loop condition
MovementSystemUpdate(d) ==
    /\ forEachBegin("Velocity")
    /\ sys' = "movement"
    /\ dt' = d
    /\ startMgr' = mgr
    /\ UNCHANGED <<out, dead>>

\* MovementSystem::update: one call of the visitor
MovementVisit ==
    /\ sys = "movement"
    /\ pc = "body"
    /\ it <= Len(order)
    /\ LET e == order[it]
           v == get(components[feT], e)[1]
       IN components' = MovementStore(components, e, v, dt)
    /\ visits' = Append(visits, order[it])
    /\ pc' = "incr"
    /\ UNCHANGED <<nextId, entities, freeIds, feT, order, it, startKeys, killed,
                   lastOp, everAdded, maxFresh, drv>>

\* std::max(0, h.hp - 1)
HealthDecrement(hp) == IF hp - 1 > 0 THEN hp - 1 ELSE 0

\* HealthSystem::update up to the first evaluation of the loop condition
HealthSystemUpdate ==
    /\ forEachBegin("Health")
    /\ sys' = "health"
    /\ startMgr' = mgr
    /\ UNCHANGED <<dt, out, dead>>

\* HealthSystem::update: one call of the visitor, which writes h.hp and, when
\* it is 0, calls mgr.destroyEntity(e) on the entity it is visiting
HealthVisit ==
    /\ sys = "health"
    /\ pc = "body"
    /\ it <= Len(order)
    /\ LET e == order[it]
           hp == HealthDecrement(get(components[feT], e)[1])
           comps == [components EXCEPT ![feT] = assign(@, e, hp)]
       IN IF hp = 0
          THEN /\ entities' = EraseRemove(entities, e)
               /\ freeIds' = destroyEntityFree(freeIds, e)
               /\ components' = destroyEntityComponents(comps, e)
               /\ killed' = killed \cup {<<e, e>>}
               /\ dead' = dead \cup {e}
          ELSE /\ components' = comps
               /\ UNCHANGED <<entities, freeIds, killed, dead>>
    /\ visits' = Append(visits, order[it])
    /\ pc' = "incr"
    /\ UNCHANGED <<nextId, feT, order, it, startKeys, lastOp, everAdded, maxFresh,
                   main, sys, dt, out, startMgr, tickMgr>>

\* mutant: a missing Health is printed as 0
RenderLineZero(e, p, n, h) ==
    <<IF n # <<>> THEN n[1] ELSE "unnamed", e, p[1], p[2], IF h # <<>> THEN h[1] ELSE 0>>

\* RenderSystem::render's visitor: the line it writes, name[e] pos=(x,y) hp=hp
RenderLine(e, p, n, h) ==
    <<IF n # <<>> THEN n[1] ELSE "unnamed", e, p[1], p[2], IF h # <<>> THEN h[1] ELSE -1>>

\* RenderSystem::render up to the first evaluation of the loop condition
RenderSystemRender ==
    /\ forEachBegin("Position")
    /\ sys' = "render"
    /\ out' = <<>>
    /\ startMgr' = mgr
    /\ UNCHANGED <<dt, dead>>

\* RenderSystem::render: one call of the visitor
RenderVisit ==
    /\ sys = "render"
    /\ pc = "body"
    /\ it <= Len(order)
    /\ LET e == order[it]
           p == get(components[feT], e)[1]
           n == getComponentRet(components, "Name", e)
           h == getComponentRet(components, "Health", e)
       IN out' = AddLine(out, RenderLine(e, p, n, h))
    /\ visits' = Append(visits, order[it])
    /\ pc' = "incr"
    /\ UNCHANGED <<mgr, feT, order, it, startKeys, killed, lastOp, everAdded, maxFresh,
                   main, sys, dt, startMgr, tickMgr, dead>>

(* -------------------------------- main --------------------------------- *)
\* for (int i = 0; i < 5; ++i): the number of entities main spawns
spawnCount == 5
\* const int ticks = 10
ticks == 10
\* const float dt = 1.0f
mainDt == 1

\* "Entity_" + std::to_string(e), for the ids main spawns
mainName(e) == <<"Entity_0", "Entity_1", "Entity_2", "Entity_3", "Entity_4">>[e + 1]

\* the components main attaches to the entity e of iteration i; the floats
\* are counted in hundredths
mainValue(T, i, e) ==
    CASE T = "Position" -> <<100 * i, 0>>
      [] T = "Velocity" -> <<10 * i, 5 * i>>
      [] T = "Health" -> 100 - i * 10
      [] T = "Name" -> mainName(e)

\* the statement of the spawn loop's body that follows addComponent<T>
mainAfter(T) ==
    CASE T = "Position" -> "Velocity"
      [] T = "Velocity" -> "Health"
      [] T = "Health" -> "Name"
      [] T = "Name" -> "spawn"

\* mutant: the tick's body renders before the health update
tickOrderRenderFirst == <<"movement", "render", "health">>

\* the statements of the tick loop's body
tickOrder == <<"movement", "health", "render">>

\* Entity e = mgr.createEntity() in the spawn loop
mainSpawnCreate ==
    /\ main.pc = "spawn"
    /\ main.i < spawnCount
    /\ createEntity
    /\ main' = [main EXCEPT !.pc = "Position", !.e = createEntityId(freeIds, nextId)]
    /\ UNCHANGED <<sys, dt, out, startMgr, tickMgr, dead>>

\* mgr.addComponent<T>(e, ...) in the spawn loop; ++i after the last one
mainSpawnAdd(T) ==
    /\ main.pc = T
    /\ addComponent(T, main.e, mainValue(T, main.i, main.e))
    /\ main' = [main EXCEPT !.pc = mainAfter(T),
                            !.i = IF T = "Name" THEN @ + 1 ELSE @]
    /\ UNCHANGED <<sys, dt, out, startMgr, tickMgr, dead>>

\* the manager is populated: the tick loop of n ticks begins
mainEnterLoop(n) ==
    /\ main.pc = "spawn"
    /\ pc = "idle"
    /\ main' = [main EXCEPT !.pc = IF 0 < n THEN "tick" ELSE "final", !.t = 0, !.k = 1]
    /\ tickMgr' = mgr
    /\ UNCHANGED <<mgr, pc, loop, lastOp, everAdded, maxFresh,
                   sys, dt, out, startMgr, dead>>

\* movementSystem.update(dt)
mainMovement(d) ==
    /\ main.pc = "tick"
    /\ main.k <= Len(tickOrder)
    /\ tickOrder[main.k] = "movement"
    /\ MovementSystemUpdate(d)
    /\ main' = [main EXCEPT !.k = @ + 1]
    /\ UNCHANGED tickMgr

\* healthSystem.update()
mainHealth ==
    /\ main.pc = "tick"
    /\ main.k <= Len(tickOrder)
    /\ tickOrder[main.k] = "health"
    /\ HealthSystemUpdate
    /\ main' = [main EXCEPT !.k = @ + 1]
    /\ UNCHANGED tickMgr

\* renderSystem.render()
mainRender ==
    /\ main.pc = "tick"
    /\ main.k <= Len(tickOrder)
    /\ tickOrder[main.k] = "render"
    /\ RenderSystemRender
    /\ main' = [main EXCEPT !.k = @ + 1]
    /\ UNCHANGED tickMgr

\* the tick's last system returned: ++t, and the loop goes on while t < n
mainNextTick(n) ==
    /\ main.pc = "tick"
    /\ main.k = Len(tickOrder) + 1
    /\ pc = "idle"
    /\ main' = [main EXCEPT !.pc = IF main.t + 1 < n THEN "tick" ELSE "final",
                            !.t = @ + 1, !.k = 1]
    /\ tickMgr' = mgr
    /\ UNCHANGED <<mgr, pc, loop, lastOp, everAdded, maxFresh,
                   sys, dt, out, startMgr, dead>>

\* Entity e = mgr.createEntity() after the tick loop
mainFinalCreate ==
    /\ main.pc = "final"
    /\ createEntity
    /\ main' = [main EXCEPT !.pc = "finalName", !.e = createEntityId(freeIds, nextId)]
    /\ UNCHANGED <<sys, dt, out, startMgr, tickMgr, dead>>

\* mgr.addComponent<Name>(e, Name{"recycled"}); return 0
mainFinalName ==
    /\ main.pc = "finalName"
    /\ addComponent("Name", main.e, "recycled")
    /\ main' = [main EXCEPT !.pc = "done"]
    /\ UNCHANGED <<sys, dt, out, startMgr, tickMgr, dead>>

(* --------------------------- specifications ---------------------------- *)
\* The allocator alone: createEntity and destroyEntity with any id.
NextAlloc ==
    \/ (freeIds # <<>> \/ nextId < MaxId) /\ createEntity /\ UNCHANGED drv
    \/ \E id \in Entity : Len(freeIds) < MaxFree /\ destroyEntity(id) /\ UNCHANGED drv

SpecAlloc == Init /\ [][NextAlloc]_vars

\* The allocator as its callers are meant to use it: destroyEntity on live ids only.
NextAllocLive ==
    \/ (freeIds # <<>> \/ nextId < MaxLiveId) /\ createEntity /\ UNCHANGED drv
    \/ \E id \in Range(entities) : destroyEntity(id) /\ UNCHANGED drv

SpecAllocLive == Init /\ [][NextAllocLive]_vars

\* The whole API on two component types, with a visitor that changes nothing.
Next ==
    \/ (freeIds # <<>> \/ nextId < MaxCompId) /\ createEntity /\ UNCHANGED drv
    \/ \E id \in CompEntity : Len(freeIds) < MaxCompFree /\ destroyEntity(id) /\ UNCHANGED drv
    \/ \E T \in Types, e \in CompEntity, v \in Value : addComponent(T, e, v) /\ UNCHANGED drv
    \/ \E T \in Types, e \in CompEntity : removeComponent(T, e) /\ UNCHANGED drv
    \/ \E T \in Types, e \in CompEntity : hasComponent(T, e) /\ UNCHANGED drv
    \/ \E T \in Types, e \in CompEntity : getComponent(T, e) /\ UNCHANGED drv
    \/ \E T \in Types : forEachBegin(T) /\ UNCHANGED drv
    \/ forEachVisit /\ UNCHANGED drv
    \/ forEachIncr /\ UNCHANGED drv
    \/ forEachEnd /\ UNCHANGED drv

Spec == Init /\ [][Next]_vars

\* forEach with visitors that destroy entities, on one component type.
NextIter ==
    \/ (freeIds # <<>> \/ nextId < MaxId) /\ createEntity /\ UNCHANGED drv
    \/ \E id \in Entity : Len(freeIds) < MaxFree /\ destroyEntity(id) /\ UNCHANGED drv
    \/ \E T \in IterTypes, e \in Entity, v \in IterValue : addComponent(T, e, v) /\ UNCHANGED drv
    \/ \E T \in IterTypes : forEachBegin(T) /\ UNCHANGED drv
    \/ forEachVisit /\ UNCHANGED drv
    \/ \E id \in Entity : Len(freeIds) < MaxFree /\ forEachVisitDestroy(id) /\ UNCHANGED drv
    \/ forEachIncr /\ UNCHANGED drv
    \/ forEachIncrDangling /\ UNCHANGED drv
    \/ forEachEnd /\ UNCHANGED drv

SpecIter == Init /\ [][NextIter]_vars

\* The tick loop on a manager populated with any components on live entities.
NextTick ==
    \/ main.pc = "spawn" /\ nextId < MaxTickId /\ createEntity /\ UNCHANGED drv
    \/ \E T \in SysTypes, e \in Range(entities) : \E v \in SysValue(T) :
          main.pc = "spawn" /\ addComponent(T, e, v) /\ UNCHANGED drv
    \/ mainEnterLoop(MaxTicks)
    \/ \E d \in Dt : mainMovement(d)
    \/ mainHealth
    \/ mainRender
    \/ MovementVisit
    \/ HealthVisit
    \/ RenderVisit
    \/ forEachIncr /\ UNCHANGED drv
    \/ forEachIncrDangling /\ UNCHANGED drv
    \/ forEachEnd /\ UNCHANGED drv
    \/ mainNextTick(MaxTicks)

SpecTick == Init /\ [][NextTick]_vars

\* main() as written. No hp reaches 0 in it, so the loop's iterator never
\* dangles (MainNeverDangles) and the undefined increment has no step here.
NextMain ==
    \/ mainSpawnCreate
    \/ \E T \in SysTypes : mainSpawnAdd(T)
    \/ main.i = spawnCount /\ mainEnterLoop(ticks)
    \/ mainMovement(mainDt)
    \/ mainHealth
    \/ mainRender
    \/ MovementVisit
    \/ HealthVisit
    \/ RenderVisit
    \/ forEachIncr /\ UNCHANGED drv
    \/ forEachEnd /\ UNCHANGED drv
    \/ mainNextTick(ticks)
    \/ mainFinalCreate
    \/ mainFinalName

SpecMain == Init /\ [][NextMain]_vars

(* ------------------------------- claims -------------------------------- *)
\* how often x occurs in the sequence s
Count(s, x) == Cardinality({i \in 1 .. Len(s) : s[i] = x})

\* a step that is a call of createEntity
CreateStep == lastOp'.op = "createEntity" /\ Len(entities') = Len(entities) + 1

\* C1: ID uniqueness. For every sequence of createEntity and destroyEntity
\* calls, destroyEntity being called with any id, no two live entities share an
\* id: entities never holds an id twice.
IdUniqueness == \A i, j \in 1 .. Len(entities) : i # j => entities[i] # entities[j]

\* C2: recycling order. While freeIds is non-empty createEntity returns the id
\* destroyed last among those not yet reissued and leaves nextId alone; with an
\* empty freeIds it returns nextId, which is greater than every fresh id issued
\* before, and advances nextId by one. destroyEntity puts its id on top.
RecyclingOrder ==
    [][/\ CreateStep =>
            IF freeIds # <<>>
            THEN /\ lastOp'.ret = <<freeIds[Len(freeIds)]>>
                 /\ freeIds' = SubSeq(freeIds, 1, Len(freeIds) - 1)
                 /\ nextId' = nextId
                 /\ maxFresh' = maxFresh
            ELSE /\ lastOp'.ret = <<nextId>>
                 /\ lastOp'.ret[1] > maxFresh
                 /\ nextId' = nextId + 1
                 /\ freeIds' = freeIds
       /\ \A id \in Entity : destroyEntity(id) =>
            /\ freeIds' # <<>>
            /\ freeIds'[Len(freeIds')] = id
            /\ SubSeq(freeIds', 1, Len(freeIds') - 1) = freeIds
      ]_vars

\* C2 witness: create 0, 1, 2, destroy 1, create again returns 1.
RecyclingOrderWitness ==
    /\ lastOp.op = "createEntity"
    /\ lastOp.ret = <<1>>
    /\ entities = <<0, 2, 1>>
    /\ nextId = 3
    /\ freeIds = <<>>

\* C7: destroyEntity is idempotent. A destroyEntity(id) on an id that was
\* destroyed before and is not live leaves the manager as it was.
DestroyIdempotent ==
    [][\A id \in Entity :
          (destroyEntity(id) /\ id \notin Range(entities) /\ id \in Range(freeIds))
              => UNCHANGED mgr]_vars

\* C4: destroy cascades. Right after destroyEntity(e), for every type T,
\* hasComponent<T>(e) is false, getComponent<T>(e) is nullptr and a forEach<T>
\* ranges over a node list without e; e is not in entities and is the id on top
\* of freeIds.
DestroyCascades ==
    lastOp.op = "destroyEntity" =>
        /\ \A T \in Types :
              /\ ~hasComponentRet(components, T, lastOp.e)
              /\ getComponentRet(components, T, lastOp.e) = <<>>
              /\ lastOp.e \notin forEachNodes(components, T)
        /\ lastOp.e \notin Range(entities)
        /\ freeIds # <<>>
        /\ freeIds[Len(freeIds)] = lastOp.e

\* C4 witness: a destroyEntity of a live entity that had a component of every type.
DestroyCascadesWitness ==
    /\ lastOp.op = "destroyEntity"
    /\ lastOp.was = Types
    /\ \E T \in Types : components[T] # {}

ComponentIsolation ==
    [][\A A \in Types, e \in CompEntity, v \in Value :
          addComponent(A, e, v) =>
              /\ \A B \in Types \ {A} :
                    /\ B \in DOMAIN components' <=> B \in DOMAIN components
                    /\ B \in DOMAIN components => components'[B] = components[B]
              /\ \A x \in CompEntity \ {e} :
                    getComponentRet(components', A, x) = getComponentRet(components, A, x)
              /\ UNCHANGED <<nextId, entities, freeIds>>
      ]_vars

\* C6 witness: an addComponent<A>(e, v) while another entity has an A component
\* and e itself has a component of another type.
ComponentIsolationWitness ==
    /\ lastOp.op = "addComponent"
    /\ \E x \in CompEntity \ {lastOp.e} : hasComponentRet(components, lastOp.T, x)
    /\ \E B \in Types \ {lastOp.T} : hasComponentRet(components, B, lastOp.e)

\* (T, e) has no entry: no storage for T, or none of its nodes is e's
NoEntry(T, e) == T \notin DOMAIN components \/ e \notin Keys(components[T])

RegistryGrowth ==
    /\ [](DOMAIN components = everAdded)
    /\ [][/\ DOMAIN components \subseteq DOMAIN components'
          /\ DOMAIN components' # DOMAIN components =>
                \E T \in Types, e \in CompEntity, v \in Value :
                    /\ addComponent(T, e, v)
                    /\ T \notin DOMAIN components
                    /\ DOMAIN components' = DOMAIN components \cup {T}
         ]_vars

\* C10 witness: removeComponent took the last entry of a storage, which stays.
RegistryGrowthWitness ==
    /\ lastOp.op = "removeComponent"
    /\ lastOp.was # <<>>
    /\ lastOp.T \in DOMAIN components
    /\ components[lastOp.T] = {}

\* a forEach call has returned and its record is still at hand
ForEachReturned == lastOp.op = "forEach" /\ pc = "idle"

\* every destroyEntity call of the visitor was on the entity being visited
OnlyCurrentDestroyed == killed # {} /\ \A p \in killed : p[1] = p[2]

\* C3: mutation-safe iteration. When the visitor destroys the entity it is
\* visiting, the traversal stays valid and completes: the loop never faults,
\* its iterator is never left at an erased node when it is incremented, and at
\* the return every entity that had a T component at the start was visited
\* exactly once and no other entity was visited.
MutationSafeIteration ==
    /\ pc # "crashed"
    /\ pc = "incr" => ~Dangling
    /\ (ForEachReturned /\ OnlyCurrentDestroyed) =>
          \A e \in Entity : Count(visits, e) = IF e \in startKeys THEN 1 ELSE 0

\* C3, its last part alone: the visits of a forEach that returned
MutationSafeVisits ==
    (ForEachReturned /\ OnlyCurrentDestroyed) =>
        \A e \in Entity : Count(visits, e) = IF e \in startKeys THEN 1 ELSE 0

\* C9: forEach coverage. A forEach<T> whose visitor destroyed nothing called
\* the visitor exactly once for every entity with a T component and for no
\* other entity, so not at all without a storage for T or with an empty one;
\* none of its steps changes the manager.
ForEachCoverage ==
    /\ []((ForEachReturned /\ killed = {}) =>
            /\ startKeys = forEachNodes(components, feT)
            /\ \A e \in Entity :
                  Count(visits, e) = IF e \in forEachNodes(components, feT) THEN 1 ELSE 0)
    /\ [][((\E T \in IterTypes : forEachBegin(T)) \/ forEachVisit \/ forEachIncr \/ forEachEnd)
             => UNCHANGED mgr]_vars

\* C9 witness: a forEach without destruction over a storage of three entities.
ForEachCoverageWitness ==
    /\ ForEachReturned
    /\ killed = {}
    /\ Len(visits) = 3
    /\ Cardinality(forEachNodes(components, feT)) = 3

\* C11: lookup validity. An id has a component only while it is live: for
\* every type T and id e, hasComponent<T>(e) (getComponent<T>(e) non-null)
\* implies that e is in entities.
LookupValidity ==
    \A T \in Types, e \in CompEntity :
        (hasComponentRet(components, T, e) \/ getComponentRet(components, T, e) # <<>>)
            => e \in Range(entities)

\* C12: removeComponent<T>(e) deletes the (T, e) entry alone. Afterwards
\* hasComponent<T>(e) is false; the T entries of every other entity, every
\* other storage, the registry's key set, entities, freeIds and nextId are as
\* before; without a storage for T or an entry for e nothing changes at all.
RemoveComponentFrame ==
    [][\A T \in Types, e \in CompEntity :
          removeComponent(T, e) =>
              /\ ~hasComponentRet(components', T, e)
              /\ \A x \in CompEntity \ {e} :
                    getComponentRet(components', T, x) = getComponentRet(components, T, x)
              /\ DOMAIN components' = DOMAIN components
              /\ \A B \in DOMAIN components \ {T} : components'[B] = components[B]
              /\ UNCHANGED <<nextId, entities, freeIds>>
              /\ NoEntry(T, e) => UNCHANGED mgr
      ]_vars

\* C12 witness: removeComponent<T>(e) took the T entry of a live e that keeps
\* a component of another type, while another entity keeps its T entry.
RemoveComponentFrameWitness ==
    /\ lastOp.op = "removeComponent"
    /\ lastOp.was # <<>>
    /\ lastOp.e \in Range(entities)
    /\ \E B \in Types \ {lastOp.T} : hasComponentRet(components, B, lastOp.e)
    /\ \E x \in CompEntity \ {lastOp.e} : hasComponentRet(components, lastOp.T, x)

\* the entities the visitor destroyed during the forEach
KilledIds == {p[2] : p \in killed}

\* every destroyEntity call of the visitor was on an entity other than the visited one
OnlyOthersDestroyed == killed # {} /\ \A p \in killed : p[1] # p[2]

\* C13: the visitor deletes a different entity. While the visitor destroys
\* only entities other than the one it is visiting, the loop's iterator is
\* never left at an erased node and the loop never faults; at the return every
\* entity that had T at the start and was not destroyed was visited exactly
\* once, a destroyed one at most once, no other entity at all, and storage T
\* holds the entries of the start less the destroyed entities', unchanged.
DeleteOtherSafe ==
    OnlyOthersDestroyed =>
        /\ pc # "crashed"
        /\ pc = "incr" => ~Dangling
        /\ ForEachReturned =>
              /\ \A e \in Entity :
                    IF e \in startKeys \ KilledIds THEN Count(visits, e) = 1
                    ELSE IF e \in startKeys THEN Count(visits, e) <= 1
                    ELSE Count(visits, e) = 0
              /\ forEachNodes(components, feT) = startKeys \ KilledIds
              /\ \A p, q \in components[feT] : p[1] = q[1] => p = q

\* C13 witness: the visitor of a destroyed b, which had T and was not visited
\* yet, and an unrelated c was visited once.
DeleteOtherSafeWitness ==
    /\ ForEachReturned
    /\ \E a, b, c \in startKeys :
          /\ Cardinality({a, b, c}) = 3
          /\ killed = {<<a, b>>}
          /\ Count(visits, b) = 0
          /\ Count(visits, c) = 1

\* C19: allocator partition. With destroyEntity called on live ids only,
\* entities holds no id twice, freeIds holds no id twice, the two share no id,
\* and together they hold exactly the ids 0 .. nextId-1.
AllocatorPartition ==
    /\ \A i, j \in 1 .. Len(entities) : i # j => entities[i] # entities[j]
    /\ \A i, j \in 1 .. Len(freeIds) : i # j => freeIds[i] # freeIds[j]
    /\ Range(entities) \cap Range(freeIds) = {}
    /\ Range(entities) \cup Range(freeIds) = 0 .. (nextId - 1)

\* C19 witness: all ids were issued, one is live and two are on freeIds.
AllocatorPartitionWitness ==
    /\ nextId = MaxLiveId
    /\ Len(entities) = 1
    /\ Len(freeIds) >= 2
    /\ lastOp.op = "destroyEntity"

\* C20: fresh entities are empty. The id createEntity returns, fresh or
\* recycled, has no component of any type when it is returned.
FreshEntityEmpty ==
    lastOp.op = "createEntity" =>
        \A T \in Types : ~hasComponentRet(components, T, lastOp.ret[1])


\* in main the loop's iterator never refers to an erased node
MainNeverDangles == ~(pc = "incr" /\ Dangling) /\ pc # "crashed"


\* the system's call returned
MovementReturned == sys = "movement" /\ pc = "idle"
HealthReturned == sys = "health" /\ pc = "idle"
RenderReturned == sys = "render" /\ pc = "idle"

\* what HealthSystem::update is to leave of the Health storage it began with
HealthPost ==
    LET c0 == startMgr[4] IN
    /\ \A p \in (IF "Health" \in DOMAIN c0 THEN c0["Health"] ELSE {}) :
          IF p[2] - 1 <= 0
          THEN /\ p[1] \notin Range(entities)
               /\ p[1] \notin forEachNodes(components, "Health")
               /\ p[1] \in dead
          ELSE getComponentRet(components, "Health", p[1]) = <<p[2] - 1>>
    /\ \A p \in (IF "Health" \in DOMAIN components THEN components["Health"] ELSE {}) :
          p[2] >= 1

\* C14: health update. One HealthSystem::update returns, having lowered the
\* hp of every entity with a Health component by exactly 1, floored at 0, and
\* destroyed every entity whose hp is then 0: those are in neither the Health
\* storage nor entities, and every entity left in the storage has its former
\* hp minus 1, which is at least 1.
HealthUpdate ==
    /\ sys = "health" => pc # "crashed"
    /\ HealthReturned => HealthPost

\* an update that destroys nothing does what C14 says
HealthUpdateSurvivors ==
    (HealthReturned /\ killed = {}) => HealthPost

\* C15: movement update. MovementSystem::update(dt) returns with position +
\* velocity * dt as the position of every entity that had a Velocity and a
\* Position, after one visit of each entity with a Velocity; an entity
\* without Position has none afterwards, Velocity and every other storage,
\* the positions of entities without Velocity, the registry's keys, entities,
\* freeIds and nextId are as before.
MovementUpdate ==
    /\ sys = "movement" => (pc # "crashed" /\ ~(pc = "incr" /\ Dangling))
    /\ MovementReturned =>
          LET c0 == startMgr[4] IN
          /\ <<nextId, entities, freeIds>> = <<startMgr[1], startMgr[2], startMgr[3]>>
          /\ DOMAIN components = DOMAIN c0
          /\ \A T \in DOMAIN c0 \ {"Position"} : components[T] = c0[T]
          /\ forEachNodes(components, "Position") = forEachNodes(c0, "Position")
          /\ \A e \in TickEntity :
                LET p0 == getComponentRet(c0, "Position", e)
                    v0 == getComponentRet(c0, "Velocity", e)
                    p1 == getComponentRet(components, "Position", e)
                IN /\ Count(visits, e) = IF v0 # <<>> THEN 1 ELSE 0
                   /\ IF p0 = <<>> THEN p1 = <<>>
                      ELSE IF v0 = <<>> THEN p1 = p0
                      ELSE p1 = << <<p0[1][1] + v0[1][1] * dt,
                                     p0[1][2] + v0[1][2] * dt>> >>

\* C15 witness: an update with dt = 2 moved an entity that has both
\* components and passed over one that has a Velocity and no Position.
MovementUpdateWitness ==
    /\ MovementReturned
    /\ dt = 2
    /\ \E a, b \in TickEntity :
          /\ a # b
          /\ hasComponentRet(components, "Velocity", a)
          /\ getComponentRet(components, "Position", a) = << <<2, 4>> >>
          /\ hasComponentRet(components, "Velocity", b)
          /\ ~hasComponentRet(components, "Position", b)

\* a step in which main calls a system other than the one it called last
TickOrderStep ==
    sys' # sys =>
        /\ pc = "idle"
        /\ <<sys, sys'>> \in {<<"none", "movement">>, <<"movement", "health">>,
                              <<"health", "render">>, <<"render", "movement">>}

\* the tick's last system returned
TickEnd == main.pc = "tick" /\ main.k = Len(tickOrder) + 1 /\ pc = "idle"

RenderReadOnly ==
    /\ sys = "render" => (mgr = startMgr /\ pc # "crashed")
    /\ RenderReturned =>
          LET n(e) == getComponentRet(components, "Name", e)
              h(e) == getComponentRet(components, "Health", e)
              p(e) == getComponentRet(components, "Position", e)[1]
              line(e) == <<IF n(e) = <<>> THEN "unnamed" ELSE n(e)[1], e, p(e)[1], p(e)[2],
                           IF h(e) = <<>> THEN -1 ELSE h(e)[1]>>
          IN /\ DOMAIN out = {line(e) : e \in forEachNodes(components, "Position")}
             /\ \A r \in DOMAIN out : out[r] = 1

\* C17 witness: render returned after a line for an entity with Name and
\* Health and a line for an entity with neither.
RenderReadOnlyWitness ==
    /\ RenderReturned
    /\ \E a, b \in forEachNodes(components, "Position") :
          /\ hasComponentRet(components, "Name", a)
          /\ hasComponentRet(components, "Health", a)
          /\ ~hasComponentRet(components, "Name", b)
          /\ ~hasComponentRet(components, "Health", b)
          /\ \E r \in DOMAIN out : r[2] = b /\ r[1] = "unnamed" /\ r[5] = -1
          /\ \E r \in DOMAIN out : r[2] = a /\ r[1] = "a" /\ r[5] >= 1

\* C18: main shows ID recycling. The entity main creates after the tick loop
\* gets an id that was issued before and destroyed during the run.
MainShowsRecycling ==
    main.pc \in {"finalName", "done"} =>
        /\ main.e < spawnCount
        /\ main.e \in dead

=============================================================================
